---- MODULE Spec2Model ----
(***************************************************************************)
(* Model of src/lambda_function.py: lambda_handler, one invocation of      *)
(* which enumerates the account's log groups, reconciles a subscription    *)
(* filter on each, and reports through an SNS topic.                       *)
(*                                                                         *)
(* Strings are sequences of symbols, so that lower(), split(":"), the      *)
(* f-string concatenations and the `in` substring test are computed as     *)
(* Python computes them.  The CloudWatch Logs and SNS services are the     *)
(* environment: every API call either succeeds with the service's answer   *)
(* or raises one of Errors.                                                *)
(***************************************************************************)
EXTENDS Integers, Sequences, FiniteSets, TLC

\* ----------------------------------------------------------------- bounds
MaxGroups == 2
MaxPageSize == 2

\* -------------------------------------------------------- program constants
RetentionDays == 30

\* ----------------------------------------------------------------- strings
None == <<"<None>">>

Truthy(s) == s # None /\ s # <<>>

Str(s) == IF s = None THEN <<"N", "o", "n", "e">> ELSE s

LowerChar(c) ==
    CASE c = "T" -> "t"
      [] c = "R" -> "r"
      [] c = "U" -> "u"
      [] c = "E" -> "e"
      [] c = "F" -> "f"
      [] c = "A" -> "a"
      [] c = "L" -> "l"
      [] c = "S" -> "s"
      [] OTHER -> c

Lower(s) == [k \in 1..Len(s) |-> LowerChar(s[k])]

\* a in b, for Python strings
Contains(a, b) ==
    \E k \in 0..(Len(b) - Len(a)) : SubSeq(b, k + 1, k + Len(a)) = a

RECURSIVE Split(_, _)
Split(s, sep) ==
    IF \A k \in 1..Len(s) : s[k] # sep
    THEN <<s>>
    ELSE LET k == CHOOSE j \in 1..Len(s) :
                      s[j] = sep /\ \A m \in 1..(j - 1) : s[m] # sep
         IN  <<SubSeq(s, 1, k - 1)>> \o Split(SubSeq(s, k + 1, Len(s)), sep)

StrTrue == <<"t", "r", "u", "e">>
StrFalse == <<"f", "a", "l", "s", "e">>


\* ------------------------------------------------- the invocation's inputs
Digits == <<"1", "2", "3", "4", "5", "6", "7", "8", "9">>

\* context.invoked_function_arn and context.function_name
InvokedFunctionArn ==
    <<"arn", ":", "aws", ":", "lambda", ":", "us-east-1", ":", "1", "2", ":",
      "function", ":", "fn">>
FunctionName == <<"fn">>

EnvKeys ==
    {"AWS_REGION", "FIREHOSE_STREAM_NAME", "FILTER_NAME", "FILTER_PATTERN",
     "EMAIL_NOTIFICATION", "NOTIFICATION_EMAIL", "DRY_RUN", "IAM_ROLE_NAME"}

DryRunValues == {None, <<"T", "r", "u", "e">>, StrFalse}
EmailNotificationValues == {None, <<"F", "a", "l", "s", "e">>}
NotificationEmailValues == {None, <<>>, <<"ops@example.com">>}

\* os.environ of one invocation
Environments ==
    { [k \in EnvKeys |->
          CASE k = "AWS_REGION" -> <<"us-east-1">>
            [] k = "FIREHOSE_STREAM_NAME" -> <<"stream">>
            [] k = "DRY_RUN" -> d
            [] k = "EMAIL_NOTIFICATION" -> n
            [] k = "NOTIFICATION_EMAIL" -> m
            [] OTHER -> None] :
        d \in DryRunValues, n \in EmailNotificationValues,
        m \in NotificationEmailValues }

\* what an API call can raise: str(e)
Errors == {<<"AccessDeniedException">>, <<"ThrottlingException">>}

\* ------------------------------------------------------------------- state
VARIABLES
    env,          \* os.environ of the current invocation
    cwGroups,     \* CloudWatch Logs: number of log groups of the account
    pageSize,     \* CloudWatch Logs: log groups per describe_log_groups page
    cwFilters,    \* CloudWatch Logs: log group name -> its subscription filters
    snsTopics,    \* SNS: the topic ARNs, in list_topics order
    pc,           \* position of lambda_handler
    page,         \* next page of the describe_log_groups paginator
    log_groups,   \* local log_groups
    i,            \* position of the reconciliation loop in log_groups
    results,      \* local results
    topic_arn,    \* local topic_arn
    calls,        \* the API calls this invocation has issued, in order
    prev          \* what the invocation before this one left, if there was one

vars ==
    <<env, cwGroups, pageSize, cwFilters, snsTopics, pc, page, log_groups, i,
      results, topic_arn, calls, prev>>

\* ------------------------------------------------ configuration (lines 8-24)
EnvGet(key) == env[key]

EnvGetDefault(key, default) == IF env[key] = None THEN default ELSE env[key]

account_id == Split(InvokedFunctionArn, ":")[5]

region == EnvGet("AWS_REGION")

firehose_stream_name == EnvGet("FIREHOSE_STREAM_NAME")

filter_name ==
    EnvGetDefault("FILTER_NAME", <<"CloudWatchToFirehose">>)

filter_pattern == EnvGetDefault("FILTER_PATTERN", <<>>)

email_notification ==
    Lower(EnvGetDefault("EMAIL_NOTIFICATION", StrTrue)) = StrTrue

notification_email == EnvGet("NOTIFICATION_EMAIL")

dry_run == Lower(EnvGetDefault("DRY_RUN", StrFalse)) = StrTrue

firehose_arn ==
    <<"arn", ":", "aws", ":", "firehose", ":">> \o Str(region) \o <<":">>
        \o Str(account_id) \o <<":", "deliverystream/">>
        \o Str(firehose_stream_name)

role_name ==
    EnvGetDefault("IAM_ROLE_NAME", <<"CloudWatchLogsToFirehoseRole">>)

role_arn ==
    <<"arn", ":", "aws", ":", "iam", ":", ":">> \o Str(account_id)
        \o <<":", "role/">> \o Str(role_name)

own_log_group_name == <<"/aws/lambda/">> \o Str(FunctionName)

topic_name == <<"CloudWatchFilterMonitor-">> \o Str(account_id)

\* line 109 testing notification_email against None only
notification_enabled_if_set ==
    email_notification /\ notification_email # None

\* line 109
notification_enabled == email_notification /\ Truthy(notification_email)

\* ------------------------------------------------------------ the services
GroupName(k) == <<"/app/", Digits[k]>>

GroupNames == {GroupName(k) : k \in 1..MaxGroups}

\* the log groups of the account, in describe_log_groups order
AccountGroups == [k \in 1..cwGroups |-> GroupName(k)]

NumPages ==
    IF cwGroups = 0 THEN 1 ELSE (cwGroups + pageSize - 1) \div pageSize

\* page p of describe_log_groups: its logGroups
PageGroups(p) ==
    SubSeq(AccountGroups, (p - 1) * pageSize + 1,
           IF p * pageSize < cwGroups THEN p * pageSize ELSE cwGroups)

\* a subscription filter some other tool put on a log group
ForeignFilter ==
    [filterName |-> <<"legacy">>, filterPattern |-> <<"ERROR">>,
     destinationArn |-> <<"arn", ":", "aws", ":", "lambda", ":", "other">>,
     roleArn |-> None]

\* the filter put_subscription_filter is asked for (lines 80-86)
OwnFilter ==
    [filterName |-> filter_name, filterPattern |-> filter_pattern,
     destinationArn |-> firehose_arn, roleArn |-> role_arn]

\* put_subscription_filter creates the filter or replaces the one of its name
PutSubscriptionFilter(filters, f) ==
    {x \in filters : x.filterName # f.filterName} \cup {f}

TopicArnOf(name) ==
    <<"arn", ":", "aws", ":", "sns", ":">> \o Str(region) \o <<":">>
        \o Str(account_id) \o <<":">> \o name

InitialTopicLists ==
    { <<>>,
      <<TopicArnOf(<<"alerts">>)>>,
      <<TopicArnOf(<<"alerts">>), TopicArnOf(topic_name)>>,
      <<TopicArnOf(topic_name \o <<"7">>), TopicArnOf(topic_name)>> }

\* create_topic is idempotent on the name
CreateTopicIn(topics, arn) ==
    IF \E k \in 1..Len(topics) : topics[k] = arn
    THEN topics
    ELSE Append(topics, arn)

Call(api, target, detail, ok, out) ==
    [api |-> api, target |-> target, detail |-> detail, ok |-> ok, out |-> out]


\* ------------------------------------------------------- results (lines 49-66)
NoResults == [unbound |-> TRUE]

NewResults(groups) ==
    [account_id |-> account_id,
     region |-> region,
     firehose_stream |-> firehose_stream_name,
     dry_run |-> dry_run,
     total_log_groups |-> Len(groups),
     existing_filters |-> 0,
     new_filters_added |-> 0,
     would_update |-> 0,
     failed_updates |-> 0,
     log_groups_with_filters |-> <<>>,
     log_groups_updated |-> <<>>,
     log_groups_would_update |-> <<>>,
     log_groups_failed |-> <<>>,
     notification_sent |-> FALSE,
     notification_error |-> None]

\* lines 99-100
WithExisting(r, g) ==
    [r EXCEPT !.existing_filters = @ + 1,
              !.log_groups_with_filters = Append(@, g)]

\* lines 87-88
WithAdded(r, g) ==
    [r EXCEPT !.new_filters_added = @ + 1,
              !.log_groups_updated = Append(@, g)]

\* lines 90-91
WithWouldUpdate(r, g) ==
    [r EXCEPT !.would_update = @ + 1,
              !.log_groups_would_update = Append(@, g)]

\* the handlers of lines 92-97 and 101-106 without the failed_updates += 1
WithFailedUncounted(r, g, e) ==
    [r EXCEPT !.log_groups_failed = Append(@, [log_group |-> g, error |-> e])]

\* the handlers recording a fixed text in place of str(e)
WithFailedNoMessage(r, g, e) ==
    [r EXCEPT !.failed_updates = @ + 1,
              !.log_groups_failed =
                  Append(@, [log_group |-> g, error |-> <<"error">>])]

\* lines 93-97 and 102-106
WithFailed(r, g, e) ==
    [r EXCEPT !.failed_updates = @ + 1,
              !.log_groups_failed = Append(@, [log_group |-> g, error |-> e])]

\* line 160
WithNotificationSent(r) == [r EXCEPT !.notification_sent = TRUE]

\* line 163 counting the notification failure among the failed updates
WithNotificationErrorCounted(r, e) ==
    [r EXCEPT !.notification_error = e, !.failed_updates = @ + 1]

\* line 163
WithNotificationError(r, e) == [r EXCEPT !.notification_error = e]

\* lines 136-141 without the break: the last matching topic stays in topic_arn
LastMatch(topics) ==
    IF \E k \in 1..Len(topics) : Contains(topic_name, topics[k])
    THEN topics[CHOOSE k \in 1..Len(topics) :
                    /\ Contains(topic_name, topics[k])
                    /\ \A j \in (k + 1)..Len(topics) :
                           ~Contains(topic_name, topics[j])]
    ELSE None

\* lines 136-141: the first listed topic whose ARN contains topic_name
FirstMatch(topics) ==
    IF \E k \in 1..Len(topics) : Contains(topic_name, topics[k])
    THEN topics[CHOOSE k \in 1..Len(topics) :
                    /\ Contains(topic_name, topics[k])
                    /\ \A j \in 1..(k - 1) : ~Contains(topic_name, topics[j])]
    ELSE None

\* line 156
Subject(r) ==
    <<"CloudWatch Log Filter Report - ">> \o Str(account_id) \o <<" - ">>
        \o <<r.new_filters_added>> \o <<" Updates">>

\* the reconciliation part of results: the five counts and the four lists, the
\* failed list by log group
Reconciled(r) ==
    [total_log_groups |-> r.total_log_groups,
     existing_filters |-> r.existing_filters,
     new_filters_added |-> r.new_filters_added,
     would_update |-> r.would_update,
     failed_updates |-> r.failed_updates,
     log_groups_with_filters |-> r.log_groups_with_filters,
     log_groups_updated |-> r.log_groups_updated,
     log_groups_would_update |-> r.log_groups_would_update,
     log_groups_failed |->
         [k \in 1..Len(r.log_groups_failed) |-> r.log_groups_failed[k].log_group]]

\* the position after the loop body has handled log_groups[k]
AfterGroup(k) == IF k < Len(log_groups) THEN "loop" ELSE "notify"

\* one try block around the whole loop: the first failure ends the loop
AfterFailureLeavesLoop(k) == "notify"

\* lines 92-97 and 101-106: both handlers are inside the loop body, so the loop
\* goes on with the next group
AfterFailure(k) == AfterGroup(k)

\* the enumeration error caught, reconciliation going on with the pages read
OnEnumerationErrorGoOn == "results"

\* lines 44-47 stand in no try block: what the paginator raises leaves the handler
OnEnumerationError == "aborted"

\* line 76 looking for the configured filter name only
HasNoOwnFilter(filters) == \A f \in filters : f.filterName # filter_name

\* line 76 dropped: the filter is put on every log group
HasNoFiltersAlways(filters) == TRUE

\* line 76: not response.get('subscriptionFilters')
HasNoFilters(filters) == filters = {}

\* line 79 dropped: the filter is created in dry-run mode too
ShouldCreateAlways == TRUE

\* line 79
ShouldCreate == ~dry_run

\* --------------------------------------------------------------------- Init
Init ==
    /\ env \in Environments
    /\ cwGroups \in 0..MaxGroups
    /\ pageSize \in 1..MaxPageSize
    /\ cwFilters \in [GroupNames -> {{}, {ForeignFilter}, {OwnFilter}}]
    /\ \A k \in (cwGroups + 1)..MaxGroups : cwFilters[GroupName(k)] = {}
    /\ snsTopics \in InitialTopicLists
    /\ pc = "start"
    /\ page = 1
    /\ log_groups = <<>>
    /\ i = 1
    /\ results = NoResults
    /\ topic_arn = None
    /\ calls = <<>>
    /\ prev = NoResults

\* ------------------------------------------------------------------ actions
Platform == <<cwGroups, pageSize>>
Invocation == <<env, prev>>

\* lines 29-38: the retention policy of the function's own log group; the call
\* returns or raises, and what it raises is printed and dropped, so the log
\* keeps the request alone
SetRetention ==
    /\ pc = "start"
    /\ calls' = Append(calls, Call("put_retention_policy", own_log_group_name,
                                   RetentionDays, TRUE, <<>>))
    /\ pc' = "discover"
    /\ UNCHANGED <<Platform, Invocation, cwFilters, snsTopics, page, log_groups,
                   i, results, topic_arn>>

\* lines 41-47: one page of the describe_log_groups paginator
Paginate ==
    /\ pc = "discover"
    /\ \/ /\ calls' = Append(calls, Call("describe_log_groups", <<>>, page,
                                         TRUE, PageGroups(page)))
          /\ log_groups' = log_groups \o PageGroups(page)
          /\ page' = page + 1
          /\ pc' = IF page < NumPages THEN "discover" ELSE "results"
       \/ /\ \E e \in Errors :
                calls' = Append(calls, Call("describe_log_groups", <<>>, page,
                                            FALSE, e))
          /\ pc' = OnEnumerationError
          /\ UNCHANGED <<log_groups, page>>
    /\ UNCHANGED <<Platform, Invocation, cwFilters, snsTopics, i, results,
                   topic_arn>>

\* lines 49-66
BuildResults ==
    /\ pc = "results"
    /\ results' = NewResults(log_groups)
    /\ i' = 1
    /\ pc' = AfterGroup(0)
    /\ UNCHANGED <<Platform, Invocation, cwFilters, snsTopics, page, log_groups,
                   topic_arn, calls>>

\* lines 69-76 and 89-91, 98-106: the existence check of log_groups[i]
DescribeFilters ==
    /\ pc = "loop"
    /\ LET g == log_groups[i] IN
       \/ /\ calls' = Append(calls, Call("describe_subscription_filters", g,
                                         <<>>, TRUE, cwFilters[g]))
          /\ IF HasNoFilters(cwFilters[g])
             THEN IF ShouldCreate
                  THEN /\ pc' = "put"
                       /\ UNCHANGED <<results, i>>
                  ELSE /\ results' = WithWouldUpdate(results, g)
                       /\ i' = i + 1
                       /\ pc' = AfterGroup(i)
             ELSE /\ results' = WithExisting(results, g)
                  /\ i' = i + 1
                  /\ pc' = AfterGroup(i)
       \/ /\ \E e \in Errors :
                /\ calls' = Append(calls, Call("describe_subscription_filters",
                                               g, <<>>, FALSE, e))
                /\ results' = WithFailed(results, g, e)
          /\ i' = i + 1
          /\ pc' = AfterFailure(i)
    /\ UNCHANGED <<Platform, Invocation, cwFilters, snsTopics, page, log_groups,
                   topic_arn>>

\* lines 78-88, 92-97: the creation of the filter of log_groups[i]
PutFilter ==
    /\ pc = "put"
    /\ LET g == log_groups[i] IN
       \/ /\ calls' = Append(calls, Call("put_subscription_filter", g,
                                         OwnFilter, TRUE, <<>>))
          /\ cwFilters' = [cwFilters EXCEPT
                              ![g] = PutSubscriptionFilter(@, OwnFilter)]
          /\ results' = WithAdded(results, g)
          /\ pc' = AfterGroup(i)
       \/ /\ \E e \in Errors :
                /\ calls' = Append(calls, Call("put_subscription_filter", g,
                                               OwnFilter, FALSE, e))
                /\ results' = WithFailed(results, g, e)
          /\ pc' = AfterFailure(i)
          /\ UNCHANGED cwFilters
    /\ i' = i + 1
    /\ UNCHANGED <<Platform, Invocation, snsTopics, page, log_groups, topic_arn>>

\* line 109 false, lines 165-167
SkipNotification ==
    /\ pc = "notify"
    /\ ~notification_enabled
    /\ pc' = "done"
    /\ UNCHANGED <<Platform, Invocation, cwFilters, snsTopics, page, log_groups,
                   i, results, topic_arn, calls>>

\* lines 109-143
ListTopics ==
    /\ pc = "notify"
    /\ notification_enabled
    /\ \/ /\ calls' = Append(calls, Call("list_topics", <<>>, <<>>, TRUE,
                                         snsTopics))
          /\ topic_arn' = FirstMatch(snsTopics)
          /\ pc' = IF ~Truthy(topic_arn') THEN "create_topic" ELSE "publish"
          /\ UNCHANGED results
       \/ /\ \E e \in Errors :
                /\ calls' = Append(calls, Call("list_topics", <<>>, <<>>,
                                               FALSE, e))
                /\ results' = WithNotificationError(results, e)
          /\ pc' = "done"
          /\ UNCHANGED topic_arn
    /\ UNCHANGED <<Platform, Invocation, cwFilters, snsTopics, page, log_groups,
                   i>>

\* lines 144-145
CreateTopic ==
    /\ pc = "create_topic"
    /\ \/ /\ calls' = Append(calls, Call("create_topic", topic_name, <<>>,
                                         TRUE, TopicArnOf(topic_name)))
          /\ snsTopics' = CreateTopicIn(snsTopics, TopicArnOf(topic_name))
          /\ topic_arn' = TopicArnOf(topic_name)
          /\ pc' = "subscribe"
          /\ UNCHANGED results
       \/ /\ \E e \in Errors :
                /\ calls' = Append(calls, Call("create_topic", topic_name,
                                               <<>>, FALSE, e))
                /\ results' = WithNotificationError(results, e)
          /\ pc' = "done"
          /\ UNCHANGED <<snsTopics, topic_arn>>
    /\ UNCHANGED <<Platform, Invocation, cwFilters, page, log_groups, i>>

\* lines 147-151
Subscribe ==
    /\ pc = "subscribe"
    /\ \/ /\ calls' = Append(calls, Call("subscribe", topic_arn,
                                         notification_email, TRUE, <<>>))
          /\ pc' = "publish"
          /\ UNCHANGED results
       \/ /\ \E e \in Errors :
                /\ calls' = Append(calls, Call("subscribe", topic_arn,
                                               notification_email, FALSE, e))
                /\ results' = WithNotificationError(results, e)
          /\ pc' = "done"
    /\ UNCHANGED <<Platform, Invocation, cwFilters, snsTopics, page, log_groups,
                   i, topic_arn>>

\* lines 153-167
Publish ==
    /\ pc = "publish"
    /\ \/ /\ calls' = Append(calls, Call("publish", topic_arn,
                                         Subject(results), TRUE, <<>>))
          /\ results' = WithNotificationSent(results)
       \/ /\ \E e \in Errors :
                /\ calls' = Append(calls, Call("publish", topic_arn,
                                               Subject(results), FALSE, e))
                /\ results' = WithNotificationError(results, e)
    /\ pc' = "done"
    /\ UNCHANGED <<Platform, Invocation, cwFilters, snsTopics, page, log_groups,
                   i, topic_arn>>

\* the next trigger invokes lambda_handler a second time, on the services as the
\* first invocation left them; DRY_RUN may have been reconfigured in between
Invoke ==
    /\ pc \in {"done", "aborted"}
    /\ prev = NoResults
    /\ prev' = [completed |-> pc = "done", dry_run |-> dry_run,
                results |-> IF pc = "done" THEN Reconciled(results)
                            ELSE NoResults]
    /\ env' \in {e \in Environments :
                    \A k \in EnvKeys \ {"DRY_RUN"} : e[k] = env[k]}
    /\ pc' = "start"
    /\ page' = 1
    /\ log_groups' = <<>>
    /\ i' = 1
    /\ results' = NoResults
    /\ topic_arn' = None
    /\ calls' = <<>>
    /\ UNCHANGED <<Platform, cwFilters, snsTopics>>

Handler ==
    \/ SetRetention
    \/ Paginate
    \/ BuildResults
    \/ DescribeFilters
    \/ PutFilter
    \/ SkipNotification
    \/ ListTopics
    \/ CreateTopic
    \/ Subscribe
    \/ Publish

Next == Handler

Spec == Init /\ [][Next]_vars

NextRuns == Handler \/ Invoke

\* two invocations in sequence, from one topic listing, one page size and a
\* configured NOTIFICATION_EMAIL
InitRuns ==
    /\ Init
    /\ pageSize = MaxPageSize
    /\ snsTopics = <<>>
    /\ env["NOTIFICATION_EMAIL"] = <<"ops@example.com">>

SpecRuns == InitRuns /\ [][NextRuns]_vars


\* ------------------------------------------------------ reading the call log
Returned == pc = "done"

ResultsBound ==
    pc \in {"loop", "put", "notify", "create_topic", "subscribe", "publish",
            "done"}

Issued(api) == {k \in 1..Len(calls) : calls[k].api = api}

IssuedFor(api, g) == {k \in Issued(api) : calls[k].target = g}

SnsApis == {"list_topics", "create_topic", "subscribe", "publish"}

SnsIssued == {k \in 1..Len(calls) : calls[k].api \in SnsApis}

Occurrences(s, x) == Cardinality({k \in 1..Len(s) : s[k] = x})

FailedGroups(r) ==
    [k \in 1..Len(r.log_groups_failed) |-> r.log_groups_failed[k].log_group]

\* in how many places of the four details lists g stands
Placements(r, g) ==
    Occurrences(r.log_groups_with_filters, g)
        + Occurrences(r.log_groups_updated, g)
        + Occurrences(r.log_groups_would_update, g)
        + Occurrences(FailedGroups(r), g)

\* the API calls of the kind `sel` picks, in the order they were issued
Selected(sel(_)) == SelectSeq(calls, sel)

IsSnsCall(c) == c.api \in SnsApis

DescribeFoundFilters(c) ==
    c.api = "describe_subscription_filters" /\ c.ok /\ c.out # {}

DescribeFoundNone(c) ==
    c.api = "describe_subscription_filters" /\ c.ok /\ c.out = {}

DescribeRaised(c) == c.api = "describe_subscription_filters" /\ ~c.ok

PutReturned(c) == c.api = "put_subscription_filter" /\ c.ok

PutRaised(c) == c.api = "put_subscription_filter" /\ ~c.ok

\* the five counts as the outcomes of the CloudWatch Logs calls alone give them
CountsOfLogsCalls ==
    [total_log_groups |-> Len(Selected(DescribeFoundFilters))
                              + Len(Selected(DescribeFoundNone))
                              + Len(Selected(DescribeRaised)),
     existing_filters |-> Len(Selected(DescribeFoundFilters)),
     new_filters_added |-> Len(Selected(PutReturned)),
     would_update |-> Len(Selected(DescribeFoundNone))
                          - Len(Selected(PutReturned)) - Len(Selected(PutRaised)),
     failed_updates |-> Len(Selected(DescribeRaised)) + Len(Selected(PutRaised))]

Counts(r) ==
    [total_log_groups |-> r.total_log_groups,
     existing_filters |-> r.existing_filters,
     new_filters_added |-> r.new_filters_added,
     would_update |-> r.would_update,
     failed_updates |-> r.failed_updates]

\* the five counts and the four details lists, the errors included
CountsAndDetails(r) ==
    <<Counts(r), r.log_groups_with_filters, r.log_groups_updated,
      r.log_groups_would_update, r.log_groups_failed>>

HasFailedEntry(r, g, e) ==
    \E k \in 1..Len(r.log_groups_failed) :
        r.log_groups_failed[k] = [log_group |-> g, error |-> e]

\* ------------------------------------------------------------------- claims

\* C1: when lambda_handler returns, total_log_groups is the sum of
\* existing_filters, new_filters_added, would_update and failed_updates, each
\* count is the length of its details list, and every enumerated log group
\* stands in exactly one place of the four details lists, whatever the
\* describe_subscription_filters and put_subscription_filter calls did.
C1_CountsPartitionGroups ==
    Returned =>
        /\ results.total_log_groups = Len(log_groups)
        /\ results.total_log_groups =
               results.existing_filters + results.new_filters_added
                   + results.would_update + results.failed_updates
        /\ results.existing_filters = Len(results.log_groups_with_filters)
        /\ results.new_filters_added = Len(results.log_groups_updated)
        /\ results.would_update = Len(results.log_groups_would_update)
        /\ results.failed_updates = Len(results.log_groups_failed)
        /\ \A k \in 1..Len(log_groups) : Placements(results, log_groups[k]) = 1

C1_Witness ==
    /\ Returned
    /\ results.failed_updates = 1
    /\ results.new_filters_added = 1
    /\ \E k \in Issued("put_subscription_filter") : ~calls[k].ok

\* C2: while dry_run is true no put_subscription_filter call is issued and no
\* log group's filters change, and at return new_filters_added is 0 and
\* log_groups_updated is empty.
C2_DryRunIssuesNoPut ==
    dry_run =>
        /\ Issued("put_subscription_filter") = {}
        /\ pc # "put"
        /\ Returned =>
              /\ results.new_filters_added = 0
              /\ results.log_groups_updated = <<>>

C2_Witness ==
    /\ dry_run
    /\ Returned
    /\ results.would_update = 2
    /\ env["DRY_RUN"] = <<"T", "r", "u", "e">>

\* C3: a failure on one log group does not stop the loop: once the loop is over
\* every enumerated log group has had exactly one
\* describe_subscription_filters call and stands in a details list, and the
\* handler never aborts once reconciliation has begun.
C3_FailureIsolated ==
    /\ pc \in {"notify", "create_topic", "subscribe", "publish", "done"} =>
          \A k \in 1..Len(log_groups) :
              /\ Cardinality(IssuedFor("describe_subscription_filters",
                                       log_groups[k])) = 1
              /\ Placements(results, log_groups[k]) >= 1
    /\ pc = "aborted" =>
          /\ Issued("describe_subscription_filters") = {}
          /\ Issued("put_subscription_filter") = {}

C3_Witness ==
    /\ Returned
    /\ Len(log_groups) = 2
    /\ Occurrences(FailedGroups(results), log_groups[1]) = 1
    /\ Occurrences(results.log_groups_updated, log_groups[2]) = 1

\* C4: a log group whose existence check returned at least one filter is counted
\* in existing_filters and listed in log_groups_with_filters and nowhere else,
\* and no put_subscription_filter call is issued for it, for either value of
\* dry_run and whichever filter it is.
C4_ExistingFilterSuppressesPut ==
    \A k \in Issued("describe_subscription_filters") :
        (calls[k].ok /\ calls[k].out # {}) =>
            /\ Occurrences(results.log_groups_with_filters, calls[k].target) = 1
            /\ Placements(results, calls[k].target) = 1
            /\ IssuedFor("put_subscription_filter", calls[k].target) = {}
            /\ results.existing_filters =
                   Cardinality({j \in Issued("describe_subscription_filters") :
                                    calls[j].ok /\ calls[j].out # {}})

C4_Witness ==
    /\ Returned
    /\ ~dry_run
    /\ results.new_filters_added = 1
    /\ \E k \in Issued("describe_subscription_filters") :
          calls[k].ok /\ calls[k].out = {ForeignFilter}


\* EMAIL_NOTIFICATION is false, or NOTIFICATION_EMAIL is unset or empty
NotificationOff ==
    \/ /\ env["EMAIL_NOTIFICATION"] # None
       /\ Lower(env["EMAIL_NOTIFICATION"]) = StrFalse
    \/ env["NOTIFICATION_EMAIL"] = None
    \/ env["NOTIFICATION_EMAIL"] = <<>>

\* C5: with EMAIL_NOTIFICATION false, or NOTIFICATION_EMAIL unset or empty, no
\* list_topics, create_topic, subscribe or publish call is issued, the returned
\* result has neither notification_sent nor notification_error, and its counts
\* are the ones the outcomes of the CloudWatch Logs calls give, as they are
\* with notification enabled.
C5_NotificationOffIssuesNoSnsCall ==
    NotificationOff =>
        /\ SnsIssued = {}
        /\ pc \notin {"create_topic", "subscribe", "publish"}
        /\ Returned =>
              /\ ~results.notification_sent
              /\ results.notification_error = None
              /\ Counts(results) = CountsOfLogsCalls

C5_Witness ==
    /\ Returned
    /\ env["EMAIL_NOTIFICATION"] = None
    /\ env["NOTIFICATION_EMAIL"] = <<>>
    /\ results.new_filters_added = 1
    /\ results.existing_filters = 1

\* what C6 says of a state
C6_FailureRecorded ==
    /\ \A k \in SnsIssued :
          ~calls[k].ok =>
              /\ Returned
              /\ k = Len(calls)
              /\ results.notification_error = calls[k].out
              /\ ~results.notification_sent
    /\ (ResultsBound /\ results.notification_sent) =>
          /\ Returned
          /\ calls[Len(calls)].api = "publish"
          /\ calls[Len(calls)].ok
          /\ results.notification_error = None
    /\ pc = "aborted" => SnsIssued = {}

\* what C6 says of a step of the notification phase
C6_ReconciliationKept ==
    pc \in {"notify", "create_topic", "subscribe", "publish"} =>
        CountsAndDetails(results') = CountsAndDetails(results)

\* C6: when list_topics, create_topic, subscribe or publish raises, the handler
\* returns at once with notification_error set to the error and
\* notification_sent absent; notification_sent is set only by a publish that
\* returned; and no step of the notification phase changes the five counts or
\* the four details lists.
C6_NotificationFailureContained ==
    []C6_FailureRecorded /\ [][C6_ReconciliationKept]_vars

C6_Witness ==
    /\ Returned
    /\ results.notification_error # None
    /\ results.new_filters_added = 1
    /\ results.failed_updates = 1
    /\ calls[Len(calls)].api = "subscribe"

\* the first of the listed topics whose ARN contains the derived name
C7_FirstMatching(listed) ==
    listed[CHOOSE k \in 1..Len(listed) :
               /\ Contains(<<"CloudWatchFilterMonitor-">> \o account_id, listed[k])
               /\ \A j \in 1..(k - 1) :
                      ~Contains(<<"CloudWatchFilterMonitor-">> \o account_id,
                                listed[j])]

\* C7: the SNS calls of a run start with list_topics.  When no listed topic
\* contains CloudWatchFilterMonitor-<account_id>, they go on with create_topic
\* of that name, subscribe of the configured email to the created topic and
\* publish to the created topic, in that order, each issued only after the one
\* before it returned.  When a listed topic matches, publish to the first
\* matching topic follows list_topics directly.  A run in which no SNS call
\* raises issues them all.
C7_CreateSubscribeBeforePublish ==
    LET sns == Selected(IsSnsCall)
        n == Len(sns)
        nomatch == \A k \in 1..Len(sns[1].out) :
                       ~Contains(<<"CloudWatchFilterMonitor-">> \o account_id,
                                 sns[1].out[k])
        full == IF nomatch
                THEN <<"list_topics", "create_topic", "subscribe", "publish">>
                ELSE <<"list_topics", "publish">>
    IN  /\ n >= 1 => sns[1].api = "list_topics"
        /\ \A k \in 1..(n - 1) : sns[k].ok
        /\ n >= 2 =>
              /\ n <= Len(full)
              /\ \A k \in 1..n : sns[k].api = full[k]
              /\ nomatch =>
                    /\ sns[2].target = <<"CloudWatchFilterMonitor-">> \o account_id
                    /\ n >= 3 =>
                          /\ sns[3].target = sns[2].out
                          /\ sns[3].detail = env["NOTIFICATION_EMAIL"]
                    /\ n >= 4 => sns[4].target = sns[2].out
              /\ ~nomatch => sns[2].target = C7_FirstMatching(sns[1].out)
        /\ (Returned /\ n >= 1 /\ sns[n].ok) => n = Len(full)
        /\ (Returned /\ ~NotificationOff) => n >= 1

C7_Witness ==
    /\ Returned
    /\ results.notification_sent
    /\ Len(Selected(IsSnsCall)) = 4
    /\ snsTopics = <<TopicArnOf(<<"alerts">>), TopicArnOf(topic_name)>>

\* C8: no describe_subscription_filters or put_subscription_filter call is
\* issued before every page of describe_log_groups has been read, and when a
\* page raises, the first or a later one, the handler aborts there: no such
\* call and no SNS call is issued, and no result is built or returned.
C8_DiscoveryFirstAndFatal ==
    /\ \A k \in Issued("describe_subscription_filters")
                    \cup Issued("put_subscription_filter") :
          /\ Cardinality({j \in Issued("describe_log_groups") :
                              j < k /\ calls[j].ok}) = NumPages
          /\ log_groups = AccountGroups
    /\ \A j \in Issued("describe_log_groups") :
          ~calls[j].ok =>
              /\ pc = "aborted"
              /\ j = Len(calls)
              /\ results = NoResults
              /\ Issued("describe_subscription_filters") = {}
              /\ Issued("put_subscription_filter") = {}
              /\ SnsIssued = {}
    /\ pc = "aborted" => ~calls[Len(calls)].ok

C8_Witness ==
    /\ pc = "aborted"
    /\ calls[Len(calls)].api = "describe_log_groups"
    /\ calls[Len(calls)].detail = 2
    /\ log_groups = <<GroupName(1)>>

\* C9: put_subscription_filter is issued at most once for a log group, only
\* with dry_run false and after that group's describe_subscription_filters
\* call returned no filters.  A group whose existence check raised is listed in
\* log_groups_failed with the error and gets no put call; a group whose put
\* call raised is listed in log_groups_failed with the error and not in
\* log_groups_updated.
C9_PutOnceAndFailuresRecorded ==
    /\ \A k \in Issued("put_subscription_filter") :
          LET g == calls[k].target IN
          /\ IssuedFor("put_subscription_filter", g) = {k}
          /\ ~dry_run
          /\ \E j \in IssuedFor("describe_subscription_filters", g) :
                j < k /\ calls[j].ok /\ calls[j].out = {}
          /\ ~calls[k].ok =>
                /\ HasFailedEntry(results, g, calls[k].out)
                /\ Occurrences(results.log_groups_updated, g) = 0
                /\ Placements(results, g) = 1
          /\ calls[k].ok => Occurrences(results.log_groups_updated, g) = 1
    /\ \A j \in Issued("describe_subscription_filters") :
          ~calls[j].ok =>
              /\ HasFailedEntry(results, calls[j].target, calls[j].out)
              /\ Placements(results, calls[j].target) = 1
              /\ IssuedFor("put_subscription_filter", calls[j].target) = {}
    /\ pc = "put" =>
          IssuedFor("put_subscription_filter", log_groups[i]) = {}

C9_Witness ==
    /\ Returned
    /\ \E k \in Issued("put_subscription_filter") :
          /\ ~calls[k].ok
          /\ calls[k].out = <<"ThrottlingException">>
    /\ \E j \in Issued("describe_subscription_filters") :
          /\ ~calls[j].ok
          /\ calls[j].out = <<"AccessDeniedException">>


\* this is the second of two invocations, and the first one returned
SecondRun == prev # NoResults /\ prev.completed

InList(s, x) == \E k \in 1..Len(s) : s[k] = x

\* the second run issues put_subscription_filter only for groups the first run
\* listed in log_groups_failed
C10_PutsOnlyForFailed ==
    \A k \in Issued("put_subscription_filter") :
        InList(prev.results.log_groups_failed, calls[k].target)

\* C10 as the specification has it: after a completed run with dry_run false, a
\* second run with dry_run false puts filters only on groups the first run
\* classified failed_updates, classifies every group the first run had in
\* existing_filters or new_filters_added as existing_filters, and reports
\* new_filters_added = 0 when the first run had failed_updates = 0; and a
\* dry-run following a dry-run reports the same counts.
C10_AsSpecified ==
    SecondRun =>
        /\ (~prev.dry_run /\ ~dry_run) =>
              /\ C10_PutsOnlyForFailed
              /\ Returned =>
                    /\ \A g \in GroupNames :
                          (\/ InList(prev.results.log_groups_with_filters, g)
                           \/ InList(prev.results.log_groups_updated, g)) =>
                              InList(results.log_groups_with_filters, g)
                    /\ prev.results.failed_updates = 0 =>
                          results.new_filters_added = 0
        /\ (prev.dry_run /\ dry_run /\ Returned) =>
              Counts(results) = Counts(prev.results)

\* C10, amended: after a completed run with dry_run false, a second run with
\* dry_run false puts filters only on groups the first run classified
\* failed_updates, classifies every group the first run had in existing_filters
\* or new_filters_added as existing_filters unless that group's existence check
\* raises in the second run (then failed_updates), and reports
\* new_filters_added = 0 when the first run had failed_updates = 0; a dry-run
\* following a dry-run classifies every group as the first did unless its
\* existence check raises in one of the two runs, and reports the same counts
\* and lists when the existence checks raise for the same groups in both.
C10_IdempotentUpToFailures ==
    SecondRun =>
        /\ (~prev.dry_run /\ ~dry_run) =>
              /\ C10_PutsOnlyForFailed
              /\ Returned =>
                    /\ \A g \in GroupNames :
                          (\/ InList(prev.results.log_groups_with_filters, g)
                           \/ InList(prev.results.log_groups_updated, g)) =>
                              /\ Placements(results, g) = 1
                              /\ \/ InList(results.log_groups_with_filters, g)
                                 \/ \E j \in IssuedFor(
                                        "describe_subscription_filters", g) :
                                        /\ ~calls[j].ok
                                        /\ InList(FailedGroups(results), g)
                    /\ prev.results.failed_updates = 0 =>
                          results.new_filters_added = 0
        /\ (prev.dry_run /\ dry_run /\ Returned) =>
              /\ \A g \in GroupNames :
                    /\ InList(prev.results.log_groups_with_filters, g) =>
                          \/ InList(results.log_groups_with_filters, g)
                          \/ InList(FailedGroups(results), g)
                    /\ InList(prev.results.log_groups_would_update, g) =>
                          \/ InList(results.log_groups_would_update, g)
                          \/ InList(FailedGroups(results), g)
              /\ FailedGroups(results) = prev.results.log_groups_failed =>
                    Reconciled(results) = prev.results

C10_Witness ==
    /\ SecondRun
    /\ Returned
    /\ ~prev.dry_run
    /\ ~dry_run
    /\ prev.results.new_filters_added = 1
    /\ prev.results.failed_updates = 1
    /\ results.existing_filters = 1
    /\ results.new_filters_added = 1

====
